---- MODULE Spec2Model ----
(***************************************************************************)
(* CAD Locker: the container format (stub || xor(payload) || footer), the  *)
(* two builders (builder.c, builder_gui.c) and the stub's launch control,  *)
(* viewer session and security monitor (stub.c).                           *)
(*                                                                         *)
(* 32-bit quantities (DWORD, uint32_t, int, long) are held as the value of *)
(* their two's-complement int image, -2^31 .. 2^31-1: a uint32_t of 2^31   *)
(* or more is held as its value minus 2^32, which is what a cast to int    *)
(* yields on the compilers the sources name (MSVC, MinGW).                 *)
(***************************************************************************)
EXTENDS Integers, Sequences, FiniteSets, TLC

(* ---------------------------------------------------------------- *)
(* cad_locker.h                                                     *)
(* ---------------------------------------------------------------- *)

XOR_KEY == <<77, 121, 83, 101, 99, 114, 101, 116, 67, 65, 68,
             75, 101, 121, 50, 48, 50, 52, 33, 64, 35, 36>>

XOR_KEY_LEN == 22

MAGIC_MARKER == <<67, 65, 68, 76, 79, 67, 75, 0>>

MAGIC_MARKER_LEN == 8

FOOTER_SIZE == 40

FLAG_MELTDOWN == 1

FLAG_SHOW_COUNTDOWN == 2

FLAG_SELF_DESTRUCT == 4

FILE_ID_LEN == 16

INT_MAX == 2147483647

INT_MIN == -2147483647 - 1

(* A path with no file behind it.  Files are sequences of bytes 0..255, so *)
(* this value is no file's content.                                        *)
NoFile == <<-1>>

(* The NULL a reader returns in place of a buffer; no buffer's content. *)
NoBuffer == <<-2>>

(* Bitwise operators of C on the low n bits of non-negative operands. *)
RECURSIVE BitXor(_, _, _)
BitXor(a, b, n) ==
    IF n = 0 THEN 0
    ELSE (((a % 2) + (b % 2)) % 2) + 2 * BitXor(a \div 2, b \div 2, n - 1)

RECURSIVE BitAnd(_, _, _)
BitAnd(a, b, n) ==
    IF n = 0 THEN 0
    ELSE ((a % 2) * (b % 2)) + 2 * BitAnd(a \div 2, b \div 2, n - 1)

RECURSIVE BitOr(_, _, _)
BitOr(a, b, n) ==
    IF n = 0 THEN 0
    ELSE (IF (a % 2) + (b % 2) > 0 THEN 1 ELSE 0) + 2 * BitOr(a \div 2, b \div 2, n - 1)

(* A faulty codec: |= in place of ^=. *)
xor_crypt_or(data) ==
    [i \in 1..Len(data) |-> BitOr(data[i], XOR_KEY[((i - 1) % XOR_KEY_LEN) + 1], 8)]

(* data[i] ^= key[i % XOR_KEY_LEN], i = 0 .. len-1 *)
xor_crypt(data) ==
    [i \in 1..Len(data) |-> BitXor(data[i], XOR_KEY[((i - 1) % XOR_KEY_LEN) + 1], 8)]

(* The k little-endian bytes of a 32-bit image (floor division gives the *)
(* two's-complement bytes of a negative image).                          *)
LEBytes(v, k) == [i \in 1..k |-> (v \div (256 ^ (i - 1))) % 256]

(* The 32-bit image of four little-endian bytes. *)
I32OfBytes(b) ==
    b[1] + 256 * b[2] + 65536 * b[3]
         + 16777216 * (IF b[4] >= 128 THEN b[4] - 256 ELSE b[4])

(* uint64_t as its two 32-bit halves. *)
U64(hi, lo) == [hi |-> hi, lo |-> lo]

(* The packed 40-byte image of a CADLockerFooter on a little-endian machine. *)
FooterBytes(f) ==
    LEBytes(f.payload_size.lo, 4) \o LEBytes(f.payload_size.hi, 4)
      \o LEBytes(f.max_launches, 4)
      \o f.file_id
      \o LEBytes(f.security_flags, 4)
      \o f.magic

(* The CADLockerFooter that 40 bytes are read into. *)
FooterOfBytes(b) ==
    [payload_size   |-> U64(I32OfBytes(SubSeq(b, 5, 8)), I32OfBytes(SubSeq(b, 1, 4))),
     max_launches   |-> I32OfBytes(SubSeq(b, 9, 12)),
     file_id        |-> SubSeq(b, 13, 28),
     security_flags |-> I32OfBytes(SubSeq(b, 29, 32)),
     magic          |-> SubSeq(b, 33, 40)]

(* ---------------------------------------------------------------- *)
(* Bounds of the model                                              *)
(* ---------------------------------------------------------------- *)

(* Longest CAD payload the builders are given. *)
MaxPayloadLen == 3

(* Longest buffer given to the codec on its own. *)
MaxCodecLen == 45

(* Launches of the stub in one behaviour. *)
MaxLaunches == 3

(* Failures the file system, the registry and the thread library inject in *)
(* one behaviour.                                                          *)
MaxFaults == 1

(* Largest launch limit typed into the builder's limit field. *)
MaxLimit == 2

(* Top-level windows that exist at one time. *)
MaxWindows == 1

(* ---------------------------------------------------------------- *)
(* Inputs                                                           *)
(* ---------------------------------------------------------------- *)

(* A buffer of len bytes: a*i + b mod 256 at offset i. *)
Pattern(len, a, b) == [i \in 1..len |-> (a * (i - 1) + b) % 256]

PatternSeeds == {<<0, 0>>, <<1, 65>>, <<0, 255>>, <<7, 77>>}

(* CAD files handed to a builder, the empty file included. *)
DwgFiles == {Pattern(n, s[1], s[2]) : n \in 0..MaxPayloadLen, s \in PatternSeeds}

(* stub.exe beside the builder: missing, empty, or an image. *)
StubFiles == {NoFile, <<>>, <<77, 90>>, <<77, 90, 144>>}

(* States of the three check boxes: meltdown, show popup, self destruct. *)
CheckStates == [meltdown : BOOLEAN, popup : BOOLEAN, destruct : BOOLEAN]

(* 16-byte build identifiers. *)
FileIdOf(k) == [i \in 1..FILE_ID_LEN |-> IF i = 1 THEN k ELSE IF i = 2 THEN 171 ELSE 0]

FileIds == {FileIdOf(1), FileIdOf(254)}

(* ---------------------------------------------------------------- *)
(* stub.c: get_id_string                                            *)
(* ---------------------------------------------------------------- *)

HexDigits == <<"0", "1", "2", "3", "4", "5", "6", "7",
               "8", "9", "A", "B", "C", "D", "E", "F">>

(* swprintf(out + i*2, 3, L"%02X", id[i]) for i = 0 .. 15 *)
get_id_string(id) ==
    [j \in 1..(2 * FILE_ID_LEN) |->
        IF j % 2 = 1 THEN HexDigits[(id[(j + 1) \div 2] \div 16) + 1]
        ELSE HexDigits[(id[j \div 2] % 16) + 1]]

(* ---------------------------------------------------------------- *)
(* builder_gui.c and builder.c                                      *)
(* ---------------------------------------------------------------- *)

(* What the file system does to one build: nothing, a read that fails, an *)
(* output that cannot be created, or write k (1 stub, 2 payload, 3 footer) *)
(* transferring one byte less than asked, after which the disk takes no    *)
(* more.                                                                   *)
BuildFaults == {"none", "read", "open", "short1", "short2", "short3"}

(* What the three fwrite calls leave in the output file. *)
WrittenFile(stub_data, enc, footer_bytes, fault) ==
    LET cut(d) == IF d = <<>> THEN d ELSE SubSeq(d, 1, Len(d) - 1)
    IN  IF fault = "short1" THEN cut(stub_data)
        ELSE IF fault = "short2" THEN stub_data \o cut(enc)
        ELSE IF fault = "short3" THEN stub_data \o enc \o cut(footer_bytes)
        ELSE stub_data \o enc \o footer_bytes

(* builder_gui.c read_file_binary: NoBuffer when the file cannot be opened, *)
(* when its size is <= 0, or when fread is short.                        *)
read_file_binary(content, readOk) ==
    IF content = NoFile THEN NoBuffer
    ELSE IF Len(content) <= 0 THEN NoBuffer
    ELSE IF ~readOk THEN NoBuffer
    ELSE content

(* builder.c read_file: the same function on a char* path. *)
read_file(content, readOk) ==
    IF content = NoFile THEN NoBuffer
    ELSE IF Len(content) <= 0 THEN NoBuffer
    ELSE IF ~readOk THEN NoBuffer
    ELSE content

(* _wtoi on a text of character codes: an optional minus sign, then the *)
(* digits up to the first other character.                              *)
RECURSIVE wtoi_from(_, _)
wtoi_from(acc, text) ==
    IF text = <<>> \/ Head(text) \notin 48..57 THEN acc
    ELSE wtoi_from(10 * acc + (Head(text) - 48), Tail(text))

wtoi(text) ==
    IF text # <<>> /\ Head(text) = 45 THEN 0 - wtoi_from(0, Tail(text))
    ELSE wtoi_from(0, text)

(* WndProc, ID_BUILD_BTN: limit = 5 unless the field holds text. *)
GuiLimit(text) == IF Len(text) > 0 THEN wtoi(text) ELSE 5

(* WndProc, ID_BUILD_BTN: flags |= FLAG_x for every checked box. *)
GuiFlags(boxes) ==
    (IF boxes.meltdown THEN FLAG_MELTDOWN ELSE 0)
      + (IF boxes.popup THEN FLAG_SHOW_COUNTDOWN ELSE 0)
      + (IF boxes.destruct THEN FLAG_SELF_DESTRUCT ELSE 0)

(* A builder that stores the stub's size as the payload size. *)
gui_build_wrong_size(stub, dwg, max_launches, flags, id, fault) ==
    LET stub_data == read_file_binary(stub, fault # "read")
        dwg_data  == read_file_binary(dwg, fault # "read")
    IN  IF stub_data = NoBuffer \/ dwg_data = NoBuffer \/ fault = "open"
        THEN [result |-> FALSE, out |-> NoFile, wrote |-> FALSE]
        ELSE [result |-> TRUE,
              out |-> WrittenFile(stub_data, xor_crypt(dwg_data),
                         FooterBytes([payload_size   |-> U64(0, Len(stub_data)),
                                      max_launches   |-> max_launches,
                                      file_id        |-> id,
                                      security_flags |-> flags,
                                      magic          |-> MAGIC_MARKER]), fault),
              wrote |-> TRUE]

(* builder_gui.c build_protected_exe(dwg_path, suffix, max_launches, flags): *)
(* result, the output file it leaves (out; NoFile when none was created) and *)
(* whether the output was opened (wrote).  The three fwrite results are not  *)
(* tested.                                                                   *)
gui_build_protected_exe(stub, dwg, max_launches, flags, id, fault) ==
    LET stub_data == IF stub = NoFile THEN NoBuffer
                     ELSE read_file_binary(stub, fault # "read")
        dwg_data  == read_file_binary(dwg, fault # "read")
    IN  IF stub_data = NoBuffer THEN [result |-> FALSE, out |-> NoFile, wrote |-> FALSE]
        ELSE IF dwg_data = NoBuffer
        THEN [result |-> FALSE, out |-> NoFile, wrote |-> FALSE]
        ELSE IF fault = "open" THEN [result |-> FALSE, out |-> NoFile, wrote |-> FALSE]
        ELSE
          LET enc    == xor_crypt(dwg_data)
              footer == [payload_size   |-> U64(0, Len(dwg_data)),
                         max_launches   |-> max_launches,
                         file_id        |-> id,
                         security_flags |-> flags,
                         magic          |-> MAGIC_MARKER]
          IN  [result |-> TRUE,
               out |-> WrittenFile(stub_data, enc, FooterBytes(footer), fault),
               wrote |-> TRUE]

(* builder.c build_protected_exe(dwg_path, suffix): 0 on success, 1 on     *)
(* failure.  max_launches, file_id and security_flags are never assigned:  *)
(* junk holds whatever the stack held.  A short fwrite ends the build.     *)
cli_build_protected_exe(stub, dwg, junk, fault) ==
    LET stub_data == read_file(stub, fault # "read")
        dwg_data  == read_file(dwg, fault # "read")
    IN  IF stub_data = NoBuffer THEN [result |-> 1, out |-> NoFile, wrote |-> FALSE]
        ELSE IF dwg_data = NoBuffer THEN [result |-> 1, out |-> NoFile, wrote |-> FALSE]
        ELSE IF fault = "open" THEN [result |-> 1, out |-> NoFile, wrote |-> FALSE]
        ELSE
          LET enc    == xor_crypt(dwg_data)
              footer == [payload_size   |-> U64(0, Len(dwg_data)),
                         max_launches   |-> junk.max_launches,
                         file_id        |-> junk.file_id,
                         security_flags |-> junk.security_flags,
                         magic          |-> MAGIC_MARKER]
          IN  [result |-> IF fault \in {"short1", "short2", "short3"} THEN 1 ELSE 0,
               out |-> WrittenFile(stub_data, enc, FooterBytes(footer), fault),
               wrote |-> TRUE]

(* ---------------------------------------------------------------- *)
(* stub.c: registry, footer, payload, secure delete                 *)
(* ---------------------------------------------------------------- *)

(* A NULL handle, thread or path. *)
NULL == "NULL"

(* DWORD count++ on the 32-bit image. *)
DwordInc(c) == IF c = INT_MAX THEN INT_MIN ELSE c + 1

(* A ledger read that fails closed: a failed read counts as every launch used. *)
get_launch_count_closed(r, value_name, ok) ==
    IF ~ok THEN INT_MAX
    ELSE IF value_name \notin DOMAIN r THEN 0
    ELSE r[value_name]

(* get_launch_count(value_name): 0 when the key cannot be opened or the *)
(* value cannot be queried (ok = FALSE, or no such value), else (int)count. *)
get_launch_count(r, value_name, ok) ==
    IF ~ok THEN 0
    ELSE IF value_name \notin DOMAIN r THEN 0
    ELSE r[value_name]

(* What the registry does to one increment: nothing, or RegCreateKeyExW, *)
(* RegQueryValueExW or RegSetValueExW fails.                             *)
RegFaults == {"none", "create", "query", "set"}

(* An increment that stores the count it read. *)
increment_launch_count_stale(r, value_name, fault) ==
    IF fault = "create" THEN [ret |-> -1, reg |-> r]
    ELSE
      LET count == IF fault # "query" /\ value_name \in DOMAIN r THEN r[value_name] ELSE 0
      IN  IF fault = "set" THEN [ret |-> -1, reg |-> r]
          ELSE [ret |-> DwordInc(count),
                reg |-> [n \in DOMAIN r \cup {value_name} |->
                            IF n = value_name THEN count ELSE r[n]]]

(* increment_launch_count(value_name): the value returned and the registry *)
(* it leaves.                                                              *)
increment_launch_count(r, value_name, fault) ==
    IF fault = "create" THEN [ret |-> -1, reg |-> r]
    ELSE
      LET read  == IF fault # "query" /\ value_name \in DOMAIN r THEN r[value_name] ELSE 0
          count == DwordInc(read)
      IN  IF fault = "set" THEN [ret |-> -1, reg |-> r]
          ELSE [ret |-> count,
                reg |-> [n \in DOMAIN r \cup {value_name} |->
                            IF n = value_name THEN count ELSE r[n]]]

(* A footer check that compares the magic as a C string (7 characters). *)
read_footer_str(exe) ==
    IF Len(exe) < FOOTER_SIZE THEN [ok |-> FALSE]
    ELSE
      LET footer == FooterOfBytes(SubSeq(exe, Len(exe) - FOOTER_SIZE + 1, Len(exe)))
      IN  IF SubSeq(footer.magic, 1, MAGIC_MARKER_LEN - 1)
                # SubSeq(MAGIC_MARKER, 1, MAGIC_MARKER_LEN - 1)
          THEN [ok |-> FALSE]
          ELSE [ok |-> TRUE, footer |-> footer]

(* read_footer(exe, &footer): fseek(-FOOTER_SIZE, SEEK_END) fails on a file *)
(* shorter than the footer; then 40 bytes are read and the magic compared.  *)
read_footer(exe) ==
    IF Len(exe) < FOOTER_SIZE THEN [ok |-> FALSE]
    ELSE
      LET footer == FooterOfBytes(SubSeq(exe, Len(exe) - FOOTER_SIZE + 1, Len(exe)))
      IN  IF footer.magic # MAGIC_MARKER THEN [ok |-> FALSE]
          ELSE [ok |-> TRUE, footer |-> footer]

(* The low 32 bits of payload_size + FOOTER_SIZE, as a long. *)
LongOfSizePlusFooter(ps) ==
    IF ps.lo <= INT_MAX - FOOTER_SIZE THEN ps.lo + FOOTER_SIZE
    ELSE ((ps.lo - INT_MAX) + (FOOTER_SIZE - 1)) + INT_MIN

(* -(long)x; negating LONG_MIN leaves LONG_MIN on the builds named. *)
NegLong(x) == IF x = INT_MIN THEN INT_MIN ELSE 0 - x

(* Failures the system can give one extraction. *)
ExtractFaults == {"none", "temp_dir", "temp_name", "malloc", "open", "write"}

(* extract_payload(exe, footer): the path returned (NULL on failure), the   *)
(* temp file left on disk and the message shown.  wide: size_t has 64 bits. *)
(* A count with the top bit set, or above 2^32, is more than any file of    *)
(* the model holds: the read is short (or malloc fails).                    *)
extract_payload(exe, footer, fault, wide) ==
    LET ps     == footer.payload_size
        huge   == (wide /\ ps.hi # 0) \/ ps.lo < 0
        count  == ps.lo
        offset == NegLong(LongOfSizePlusFooter(ps))
        pos    == Len(exe) + offset
    IN  IF fault = "temp_dir" THEN [path |-> NULL, temp |-> NoFile, msg |-> "temp_dir"]
        ELSE IF fault = "temp_name"
        THEN [path |-> NULL, temp |-> NoFile, msg |-> "temp_name"]
        ELSE IF fault = "malloc" THEN [path |-> NULL, temp |-> NoFile, msg |-> "memory"]
        ELSE IF offset > 0 \/ pos < 0
        THEN (* fseek before the start fails; past the end, fread is short *)
             [path |-> NULL, temp |-> NoFile,
              msg |-> IF pos < 0 /\ offset <= 0 THEN "seek" ELSE "read"]
        ELSE IF huge \/ count > Len(exe) - pos
        THEN [path |-> NULL, temp |-> NoFile, msg |-> "read"]
        ELSE
          LET buffer == xor_crypt(SubSeq(exe, pos + 1, pos + count))
          IN  IF fault = "open" THEN [path |-> NULL, temp |-> NoFile, msg |-> "temp_open"]
              ELSE IF fault = "write"
              THEN [path |-> NULL, temp |-> NoFile, msg |-> "temp_write"]
              ELSE [path |-> "temp_path", temp |-> buffer, msg |-> "none"]

(* DeleteFileW(path): the file is gone, unless another process holds it *)
(* open without sharing it for deletion.                                *)
DeleteFileW(content, held) == IF held THEN content ELSE NoFile

(* secure_delete_file(path): the file left at path.  When the file opens, *)
(* it is overwritten with zeros from offset 0 to its length and deleted;  *)
(* when not, it is deleted as it is.                                      *)
secure_delete_file(content, openOk, held) ==
    IF content = NoFile THEN NoFile
    ELSE IF ~openOk THEN DeleteFileW(content, held)
    ELSE DeleteFileW([i \in 1..Len(content) |-> 0], held)

(* ---------------------------------------------------------------- *)
(* stub.c: the windows the monitor scans                            *)
(* ---------------------------------------------------------------- *)

(* winuser.h *)
HC_ACTION == 0
WM_KEYDOWN == 256
WM_KEYUP == 257
WM_SYSKEYDOWN == 260

(* The process id GetProcessId gives for the spawned viewer. *)
ViewerPid == 1

(* The process id of some other process that owns windows. *)
OtherPid == 2

(* The handle ShellExecuteExW returns in sei.hProcess. *)
ViewerHandle == "hProcess"

(* The keywords of EnumWindowsProc, in its order. *)
ForbiddenKeywords ==
    << <<21478, 23384>>, <<21295, 20986>>, <<20986, 22294>>, <<21015, 21360>>,
       <<21478, 23384>>, <<23548, 20986>>, <<25171, 21360>>,
       <<83, 97, 118, 101, 32, 65, 115>>, <<69, 120, 112, 111, 114, 116>>,
       <<80, 114, 105, 110, 116>>, <<80, 108, 111, 116>> >>

(* wcsstr(title, kw) != NULL *)
wcsstr(title, kw) ==
    \E i \in 0..(Len(title) - Len(kw)) : SubSeq(title, i + 1, i + Len(kw)) = kw

(* GetWindowTextW(hwnd, title, 256): at most 255 characters. *)
GetWindowTextW(title) == SubSeq(title, 1, IF Len(title) > 255 THEN 255 ELSE Len(title))

(* The title test of EnumWindowsProc. *)
TitleForbidden(title) ==
    /\ Len(GetWindowTextW(title)) > 0
    /\ \E k \in 1..Len(ForbiddenKeywords) :
          wcsstr(GetWindowTextW(title), ForbiddenKeywords[k])

(* ---------------------------------------------------------------- *)
(* State                                                            *)
(* ---------------------------------------------------------------- *)

VARIABLES
    stubFile,          \* stub.exe beside the builder: NoFile or its bytes
    dwgFile,           \* the CAD file given to the builder: its bytes
    limitText,         \* text of the builder's limit edit control
    checks,            \* the builder's three check boxes
    stack,             \* what the CLI builder's unassigned footer fields hold
    build,             \* the build that was run: who ran, inputs, result
    file,              \* the protected executable on disk: NoFile or bytes
    reg,               \* HKCU\Software\MyCADLock: value name -> DWORD
    temp,              \* the decrypted temp file of this launch: NoFile or its bytes
    stale,             \* temp files that earlier launches left behind
    selfDelete,        \* self_delete has started its batch file
    pc,                \* where wWinMain is
    footer,            \* wWinMain's footer
    launch_count,      \* wWinMain's launch_count
    exitCode,          \* the value wWinMain returned
    msgs,              \* message boxes shown by this launch, in order
    launches,          \* launches of the stub so far
    viewer,            \* the viewer process: none, running, exited, killed
    windows,           \* top-level windows: [pid, title]
    sei_hProcess,      \* launch_and_wait's sei.hProcess
    procHandle,        \* state of the viewer's process handle
    hThread,           \* launch_and_wait's hThread
    g_monitor_running,
    g_target_pid,
    g_target_hProcess,
    g_security_flags,
    mon,               \* where security_monitor_thread is
    g_hhkLowLevelKybd, \* the keyboard hook is installed
    timerId,           \* the monitor's timer is set
    quit,              \* WM_QUIT is in the monitor thread's queue
    hist,              \* what has happened (read by the properties only)
    buf,               \* codec on its own: the buffer
    orig,              \* codec on its own: the buffer as first given
    applied,           \* codec on its own: calls of xor_crypt so far
    erase,             \* secure_delete_file on its own: the file and the loop
    seek,              \* the seek offset on its own: a payload size and its offset
    faults             \* failures injected so far

builderVars == <<stubFile, dwgFile, limitText, checks, stack, build>>

codecVars == <<buf, orig, applied, erase, seek>>

mainVars == <<pc, footer, launch_count, exitCode, msgs, launches>>

sessionVars == <<viewer, windows, sei_hProcess, procHandle, hThread>>

globalVars == <<g_monitor_running, g_target_pid, g_target_hProcess, g_security_flags>>

monitorVars == <<mon, g_hhkLowLevelKybd, timerId, quit>>

vars == <<stubFile, dwgFile, limitText, checks, stack, build, file, reg, temp, stale,
          selfDelete, pc, footer, launch_count, exitCode, msgs, launches,
          viewer, windows, sei_hProcess, procHandle, hThread,
          g_monitor_running, g_target_pid, g_target_hProcess, g_security_flags,
          mon, g_hhkLowLevelKybd, timerId, quit, hist, buf, orig, applied, erase, seek,
          faults>>

NoBuild == [by |-> "none"]

NoFooter == [magic |-> <<>>]

EmptyReg == [n \in {} |-> 0]

(* No call of the keyboard hook yet. *)
NoKey == [combo |-> FALSE, fg |-> "none", ret |-> 0]

(* What one launch has done so far. *)
NewLaunchHist(h) ==
    [h EXCEPT !.incCalled = FALSE, !.incRet = 0,
              !.tempMade = FALSE, !.spawned = FALSE, !.killed = FALSE,
              !.passed = FALSE, !.posted = {}, !.key = NoKey]

InitHist ==
    [opens     |-> 0,        \* launches of this container that passed the limit check
     regFault  |-> FALSE,    \* a registry call has failed
     incCalled |-> FALSE,    \* this launch has called increment_launch_count
     incRet    |-> 0,        \* and the value it returned
     lastRet   |-> 0,        \* the value the latest call of any launch returned
     passed    |-> FALSE,    \* this launch passed the limit check
     tempMade  |-> FALSE,    \* this launch created the temp file
     spawned   |-> FALSE,    \* this launch's ShellExecuteExW succeeded
     killed    |-> FALSE,    \* this launch's monitor called TerminateProcess
     posted    |-> {},       \* windows the latest EnumWindows posted WM_CLOSE to
     key       |-> NoKey]    \* the latest call of the keyboard hook

InitEnv(stubs, dwgs, limits, boxes, junk, regs) ==
    /\ stubFile \in stubs
    /\ dwgFile \in dwgs
    /\ limitText \in limits
    /\ checks \in boxes
    /\ stack \in junk
    /\ reg \in regs
    /\ build = NoBuild
    /\ file = NoFile
    /\ temp = NoFile
    /\ stale = {}
    /\ selfDelete = FALSE
    /\ pc = "idle"
    /\ footer = NoFooter
    /\ launch_count = 0
    /\ exitCode = 0
    /\ msgs = <<>>
    /\ launches = 0
    /\ viewer = "none"
    /\ windows = {}
    /\ sei_hProcess = NULL
    /\ procHandle = "none"
    /\ hThread = NULL
    /\ g_monitor_running = FALSE
    /\ g_target_pid = 0
    /\ g_target_hProcess = NULL
    /\ g_security_flags = 0
    /\ mon = "none"
    /\ g_hhkLowLevelKybd = FALSE
    /\ timerId = FALSE
    /\ quit = FALSE
    /\ hist = InitHist
    /\ faults = 0

(* The failures an operation can meet: any of S while the behaviour has *)
(* failures left, otherwise none.                                       *)
Faulty(S, none) == IF faults < MaxFaults THEN S ELSE {none}

Injected(fault, none) == faults + (IF fault = none THEN 0 ELSE 1)

(* ---------------------------------------------------------------- *)
(* The builders                                                     *)
(* ---------------------------------------------------------------- *)

(* builder_gui.c WndProc, WM_COMMAND / ID_BUILD_BTN, and the build it runs. *)
(* CoCreateGuid gives an identifier no ledger entry carries; when it fails, *)
(* rand() gives any 16 bytes.  No icon is selected (g_szIconPath is empty). *)
GuiBuild ==
    /\ pc = "idle"
    /\ build.by = "none"
    /\ \E fault \in Faulty(BuildFaults \cup {"guid"}, "none"), id \in FileIds :
         /\ fault # "guid" => get_id_string(id) \notin DOMAIN reg
         /\ LET limit == GuiLimit(limitText)
                flags == GuiFlags(checks)
                r     == gui_build_protected_exe(stubFile, dwgFile, limit, flags, id, fault)
            IN  /\ build' = [by |-> "gui", result |-> r.result, wrote |-> r.wrote,
                             max_launches |-> limit, flags |-> flags, file_id |-> id,
                             short |-> r.wrote /\ fault \in {"short1", "short2", "short3"},
                             fresh |-> get_id_string(id) \notin DOMAIN reg]
                /\ file' = r.out
         /\ faults' = Injected(fault, "none")
    /\ UNCHANGED <<stubFile, dwgFile, limitText, checks, stack, reg, temp, selfDelete,
                   mainVars, sessionVars, globalVars, monitorVars, hist, codecVars, stale>>

(* builder.c main and the build it runs. *)
CliBuild ==
    /\ pc = "idle"
    /\ build.by = "none"
    /\ \E fault \in Faulty(BuildFaults, "none") :
         LET r == cli_build_protected_exe(stubFile, dwgFile, stack, fault)
         IN  /\ build' = [by |-> "cli", result |-> (r.result = 0), wrote |-> r.wrote,
                          max_launches |-> stack.max_launches,
                          flags |-> stack.security_flags, file_id |-> stack.file_id,
                          short |-> r.wrote /\ fault \in {"short1", "short2", "short3"},
                          fresh |-> get_id_string(stack.file_id) \notin DOMAIN reg]
             /\ file' = r.out
             /\ faults' = Injected(fault, "none")
    /\ UNCHANGED <<stubFile, dwgFile, limitText, checks, stack, reg, temp, selfDelete,
                   mainVars, sessionVars, globalVars, monitorVars, hist, codecVars, stale>>

(* ---------------------------------------------------------------- *)
(* stub.c: wWinMain                                                 *)
(* ---------------------------------------------------------------- *)

Append2(q, m) == q \o <<m>>

(* footer.max_launches > 0 && launch_count >= (int)footer.max_launches, *)
(* on the 32-bit images: the first test is unsigned, the second signed.  *)
LimitReached(max_launches, count) ==
    max_launches # 0 /\ count >= max_launches

(* A main that goes from the limit check straight to the info message. *)
PcAfterCheckSkip == "info"

(* After the limit check wWinMain increments the launch count. *)
PcAfterCheck == "increment"

(* wWinMain's last statement: return 0. *)
ReturnAfterWipe == 0

Exit(code, shown) ==
    /\ pc' = "exited"
    /\ exitCode' = code
    /\ msgs' = shown

(* What opening an existing file leaves of its content: the "w" modes    *)
(* truncate it, the "r" modes leave it as it is.                          *)
wfopen_truncating(content, mode) ==
    IF mode \in {"w", "wb", "rb"} THEN <<>> ELSE content

wfopen(content, mode) ==
    IF mode \in {"w", "wb"} THEN <<>> ELSE content

(* wWinMain to the footer check: a new process, so the globals hold their *)
(* initial values.  Windows of an earlier session are not followed, and a  *)
(* temp file an earlier launch left stays where it is.                     *)
StubStart ==
    /\ pc \in {"idle", "exited"}
    /\ file # NoFile
    /\ launches < MaxLaunches
    /\ launches' = launches + 1
    /\ hist' = NewLaunchHist(hist)
    /\ viewer' = "none"
    /\ windows' = {}
    /\ sei_hProcess' = NULL
    /\ procHandle' = "none"
    /\ hThread' = NULL
    /\ g_monitor_running' = FALSE
    /\ g_target_pid' = 0
    /\ g_target_hProcess' = NULL
    /\ g_security_flags' = 0
    /\ mon' = "none"
    /\ g_hhkLowLevelKybd' = FALSE
    /\ timerId' = FALSE
    /\ quit' = FALSE
    /\ launch_count' = 0
    /\ \E self \in Faulty({"ok", "no_path", "no_open"}, "ok") :
         /\ faults' = Injected(self, "ok")
         /\ file' = IF self = "ok" THEN wfopen(file, "rb") ELSE file
         /\ IF self # "ok"
            THEN /\ Exit(1, <<self>>)
                 /\ footer' = NoFooter
            ELSE LET r == read_footer(file)
                 IN  IF ~r.ok
                     THEN /\ Exit(1, <<"invalid">>)
                          /\ footer' = NoFooter
                     ELSE /\ pc' = "check"
                          /\ footer' = r.footer
                          /\ exitCode' = 0
                          /\ msgs' = <<>>
    /\ temp' = NoFile
    /\ stale' = IF temp = NoFile THEN stale ELSE stale \cup {temp}
    /\ UNCHANGED <<builderVars, reg, selfDelete, codecVars>>

(* A main that counts the launch before it tests the limit. *)
StubCheckLimitCounting ==
    /\ pc = "check"
    /\ \E ok \in Faulty(BOOLEAN, TRUE), batchOk \in BOOLEAN :
         LET value_name == get_id_string(footer.file_id)
             count      == get_launch_count(reg, value_name, ok)
         IN  /\ launch_count' = count
             /\ g_security_flags' = footer.security_flags
             /\ reg' = increment_launch_count(reg, value_name, "none").reg
             /\ IF LimitReached(footer.max_launches, count)
                THEN /\ Exit(1, Append2(msgs, "limit"))
                     /\ selfDelete' = batchOk
                     /\ hist' = [hist EXCEPT !.regFault = hist.regFault \/ ~ok]
                ELSE /\ batchOk
                     /\ pc' = PcAfterCheck
                     /\ UNCHANGED <<exitCode, msgs, selfDelete>>
                     /\ hist' = [hist EXCEPT !.regFault = hist.regFault \/ ~ok,
                                             !.passed = TRUE,
                                             !.opens = hist.opens + 1]
             /\ faults' = Injected(ok, TRUE)
    /\ UNCHANGED <<builderVars, file, temp, footer, launches, sessionVars,
                   g_monitor_running, g_target_pid, g_target_hProcess,
                   monitorVars, codecVars, stale>>

(* get_launch_count, g_security_flags, the limit test and self_delete. *)
StubCheckLimit ==
    /\ pc = "check"
    /\ \E ok \in Faulty(BOOLEAN, TRUE), batchOk \in BOOLEAN :
         LET value_name == get_id_string(footer.file_id)
             count      == get_launch_count(reg, value_name, ok)
         IN  /\ launch_count' = count
             /\ g_security_flags' = footer.security_flags
             /\ IF LimitReached(footer.max_launches, count)
                THEN /\ Exit(1, Append2(msgs, "limit"))
                     /\ selfDelete' = batchOk
                     /\ hist' = [hist EXCEPT !.regFault = hist.regFault \/ ~ok]
                ELSE /\ batchOk
                     /\ pc' = PcAfterCheck
                     /\ UNCHANGED <<exitCode, msgs, selfDelete>>
                     /\ hist' = [hist EXCEPT !.regFault = hist.regFault \/ ~ok,
                                             !.passed = TRUE,
                                             !.opens = hist.opens + 1]
             /\ faults' = Injected(ok, TRUE)
    /\ UNCHANGED <<builderVars, file, reg, temp, footer, launches, sessionVars,
                   g_monitor_running, g_target_pid, g_target_hProcess,
                   monitorVars, codecVars, stale>>

(* increment_launch_count; its failure is not fatal. *)
StubIncrement ==
    /\ pc = "increment"
    /\ \E fault \in Faulty(RegFaults, "none") :
         LET r == increment_launch_count(reg, get_id_string(footer.file_id), fault)
         IN  /\ reg' = r.reg
             /\ hist' = [hist EXCEPT !.incCalled = TRUE,
                                     !.incRet = r.ret,
                                     !.lastRet = r.ret,
                                     !.regFault = hist.regFault \/ fault # "none"]
             /\ faults' = Injected(fault, "none")
    /\ pc' = "info"
    /\ UNCHANGED <<builderVars, file, temp, selfDelete, footer, launch_count, exitCode,
                   msgs, launches, sessionVars, globalVars, monitorVars, codecVars, stale>>

(* The remaining-views message. *)
StubShowInfo ==
    /\ pc = "info"
    /\ msgs' = IF footer.max_launches # 0 THEN Append2(msgs, "remaining") ELSE msgs
    /\ pc' = "extract"
    /\ UNCHANGED <<builderVars, file, reg, temp, selfDelete, footer, launch_count,
                   exitCode, launches, sessionVars, globalVars, monitorVars, hist,
                   codecVars, faults, stale>>

(* extract_payload and the test of its result. *)
StubExtract ==
    /\ pc = "extract"
    /\ \E fault \in Faulty(ExtractFaults, "none"), wide \in BOOLEAN :
         LET r == extract_payload(file, footer, fault, wide)
         IN  /\ temp' = r.temp
             /\ faults' = Injected(fault, "none")
             /\ IF r.path = NULL
                THEN /\ Exit(1, Append2(msgs, r.msg))
                     /\ hist' = hist
                ELSE /\ pc' = "launch"
                     /\ UNCHANGED <<exitCode, msgs>>
                     /\ hist' = [hist EXCEPT !.tempMade = TRUE]
    /\ UNCHANGED <<builderVars, file, reg, selfDelete, footer, launch_count, launches,
                   sessionVars, globalVars, monitorVars, codecVars, stale>>

(* ---------------------------------------------------------------- *)
(* stub.c: launch_and_wait                                          *)
(* ---------------------------------------------------------------- *)

ViewerWindows(ws) == {w \in ws : w.pid = ViewerPid}

(* ShellExecuteExW: it fails, or the viewer runs and sei.hProcess is its *)
(* handle, or the viewer runs and sei.hProcess is NULL.                  *)
Spawn ==
    /\ pc = "launch"
    /\ \E r \in {"fail", "handle", "no_handle"} :
         IF r = "fail"
         THEN /\ msgs' = Append2(msgs, "spawn")
              /\ pc' = "wipe"
              /\ UNCHANGED <<viewer, sei_hProcess, procHandle, hist>>
         ELSE /\ viewer' = "running"
              /\ sei_hProcess' = IF r = "handle" THEN ViewerHandle ELSE NULL
              /\ procHandle' = IF r = "handle" THEN "open" ELSE "none"
              /\ hist' = [hist EXCEPT !.spawned = TRUE]
              /\ pc' = "start_monitor"
              /\ msgs' = msgs
    /\ UNCHANGED <<builderVars, file, reg, temp, selfDelete, footer, launch_count,
                   exitCode, launches, windows, hThread, globalVars, monitorVars,
                   codecVars, faults, stale>>

(* if (sei.hProcess) { globals; _beginthreadex } *)
StartMonitor ==
    /\ pc = "start_monitor"
    /\ IF sei_hProcess # NULL
       THEN /\ g_target_hProcess' = sei_hProcess
            /\ g_target_pid' = ViewerPid
            /\ g_monitor_running' = TRUE
            /\ \E started \in Faulty(BOOLEAN, TRUE) :
                 /\ hThread' = IF started THEN "hThread" ELSE NULL
                 /\ mon' = IF started THEN "init" ELSE mon
                 /\ faults' = Injected(started, TRUE)
       ELSE UNCHANGED <<g_target_hProcess, g_target_pid, g_monitor_running, hThread, mon,
                        faults>>
    /\ pc' = "wait_viewer"
    /\ UNCHANGED <<builderVars, file, reg, temp, selfDelete, footer, launch_count,
                   exitCode, msgs, launches, viewer, windows, sei_hProcess, procHandle,
                   g_security_flags, g_hhkLowLevelKybd, timerId, quit, hist, codecVars, stale>>

(* if (sei.hProcess) WaitForSingleObject(sei.hProcess, INFINITE) *)
WaitViewer ==
    /\ pc = "wait_viewer"
    /\ sei_hProcess # NULL => viewer # "running"
    /\ pc' = "stop_monitor"
    /\ UNCHANGED <<builderVars, file, reg, temp, selfDelete, footer, launch_count,
                   exitCode, msgs, launches, sessionVars, globalVars, monitorVars, hist,
                   codecVars, faults, stale>>

(* g_monitor_running = FALSE; PostThreadMessage(WM_QUIT) reaches a thread *)
(* that has a message queue (it has run its first lines) and has not ended. *)
StopMonitor ==
    /\ pc = "stop_monitor"
    /\ g_monitor_running' = FALSE
    /\ quit' = (hThread # NULL /\ mon \in {"test", "scan", "terminate", "pump", "sleep", "cleanup"})
    /\ pc' = "wait_thread"
    /\ UNCHANGED <<builderVars, file, reg, temp, selfDelete, footer, launch_count,
                   exitCode, msgs, launches, sessionVars, g_target_pid,
                   g_target_hProcess, g_security_flags, mon, g_hhkLowLevelKybd,
                   timerId, hist, codecVars, faults, stale>>

(* WaitForSingleObject(hThread, 500) returns when the thread has ended or *)
(* when the 500 ms are over; CloseHandle(hThread).                        *)
WaitThread ==
    /\ pc = "wait_thread"
    /\ pc' = "close_process"
    /\ UNCHANGED <<builderVars, file, reg, temp, selfDelete, footer, launch_count,
                   exitCode, msgs, launches, sessionVars, globalVars, monitorVars, hist,
                   codecVars, faults, stale>>

(* if (sei.hProcess) CloseHandle(sei.hProcess) *)
CloseProcess ==
    /\ pc = "close_process"
    /\ procHandle' = IF sei_hProcess # NULL THEN "closed" ELSE procHandle
    /\ pc' = "reset_globals"
    /\ UNCHANGED <<builderVars, file, reg, temp, selfDelete, footer, launch_count,
                   exitCode, msgs, launches, viewer, windows, sei_hProcess, hThread,
                   globalVars, monitorVars, hist, codecVars, faults, stale>>

(* g_target_hProcess = NULL; g_target_pid = 0; the function ends. *)
ResetGlobals ==
    /\ pc = "reset_globals"
    /\ g_target_hProcess' = NULL
    /\ g_target_pid' = 0
    /\ pc' = "wipe"
    /\ UNCHANGED <<builderVars, file, reg, temp, selfDelete, footer, launch_count,
                   exitCode, msgs, launches, sessionVars, g_monitor_running,
                   g_security_flags, monitorVars, hist, codecVars, faults, stale>>

(* secure_delete_file(temp_file).  A viewer that still runs may hold the *)
(* file it was given.                                                    *)
Wipe ==
    /\ pc = "wipe"
    /\ \E openOk \in BOOLEAN,
          held \in (IF viewer = "running" THEN Faulty(BOOLEAN, FALSE) ELSE {FALSE}) :
         /\ temp' = secure_delete_file(temp, openOk, held)
         /\ faults' = Injected(held, FALSE)
    /\ pc' = "return"
    /\ UNCHANGED <<builderVars, file, reg, selfDelete, footer, launch_count, exitCode,
                   msgs, launches, sessionVars, globalVars, monitorVars, hist,
                   codecVars, stale>>

(* return 0: the process ends, and with it a monitor thread still running. *)
StubReturn ==
    /\ pc = "return"
    /\ pc' = "exited"
    /\ exitCode' = ReturnAfterWipe
    /\ mon' = IF mon \in {"none", "ended"} THEN mon ELSE "killed"
    /\ g_hhkLowLevelKybd' = FALSE
    /\ timerId' = FALSE
    /\ UNCHANGED <<builderVars, file, reg, temp, selfDelete, footer, launch_count,
                   msgs, launches, sessionVars, globalVars, quit, hist, codecVars, faults, stale>>

(* ---------------------------------------------------------------- *)
(* stub.c: security_monitor_thread                                  *)
(* ---------------------------------------------------------------- *)

(* SetWindowsHookExW (which can fail) and SetTimer. *)
MonitorInit ==
    /\ mon = "init"
    /\ \E hooked \in Faulty(BOOLEAN, TRUE) :
         /\ g_hhkLowLevelKybd' = hooked
         /\ faults' = Injected(hooked, TRUE)
    /\ timerId' = TRUE
    /\ mon' = "test"
    /\ UNCHANGED <<builderVars, file, reg, temp, selfDelete, mainVars, sessionVars,
                   globalVars, quit, hist, codecVars, stale>>

(* A loop that does not read the flag: while (TRUE). *)
MonitorTestForever ==
    /\ mon = "test"
    /\ mon' = "scan"
    /\ UNCHANGED <<builderVars, file, reg, temp, selfDelete, mainVars, sessionVars,
                   globalVars, g_hhkLowLevelKybd, timerId, quit, hist, codecVars, faults, stale>>

(* while (g_monitor_running) *)
MonitorTest ==
    /\ mon = "test"
    /\ mon' = IF g_monitor_running THEN "scan" ELSE "cleanup"
    /\ UNCHANGED <<builderVars, file, reg, temp, selfDelete, mainVars, sessionVars,
                   globalVars, g_hhkLowLevelKybd, timerId, quit, hist, codecVars, faults, stale>>

(* A callback that tests the self-destruct bit in place of the meltdown bit. *)
EnumWindowsKillsWrongFlag(ws, pid, flags, hProcess) ==
    /\ \E w \in ws : w.pid = pid /\ TitleForbidden(w.title)
    /\ BitAnd(flags, FLAG_SELF_DESTRUCT, 32) # 0
    /\ hProcess # NULL

(* EnumWindows(EnumWindowsProc): TerminateProcess is called when some window *)
(* of the target process carries a forbidden title, the meltdown bit is set  *)
(* and the handle is not NULL.                                               *)
EnumWindowsKills(ws, pid, flags, hProcess) ==
    /\ \E w \in ws : w.pid = pid /\ TitleForbidden(w.title)
    /\ BitAnd(flags, FLAG_MELTDOWN, 32) # 0
    /\ hProcess # NULL

(* EnumWindows(EnumWindowsProc): the windows PostMessageW(hwnd, WM_CLOSE) is *)
(* called for, those of the target process whose title, as GetWindowTextW    *)
(* reads it, carries a forbidden keyword.                                    *)
EnumWindowsPosts(ws, pid) ==
    {w \in ws : w.pid = pid /\ TitleForbidden(w.title)}

(* if (g_target_pid != 0) EnumWindows(EnumWindowsProc, 0): the callback's *)
(* tests.  When they select a window and find the meltdown bit and the    *)
(* handle set, the thread stands before its call of TerminateProcess.     *)
MonitorScan ==
    /\ mon = "scan"
    /\ hist' = [hist EXCEPT !.posted = IF g_target_pid # 0
                                       THEN EnumWindowsPosts(windows, g_target_pid)
                                       ELSE {}]
    /\ mon' = IF /\ g_target_pid # 0
                 /\ EnumWindowsKills(windows, g_target_pid, g_security_flags,
                                     g_target_hProcess)
              THEN "terminate"
              ELSE "pump"
    /\ UNCHANGED <<builderVars, file, reg, temp, selfDelete, mainVars, sessionVars,
                   globalVars, g_hhkLowLevelKybd, timerId, quit, codecVars, faults, stale>>

(* TerminateProcess(g_target_hProcess, 0), with the value the global holds *)
(* at the call: NULL is refused, an open handle of a running viewer ends   *)
(* the viewer.                                                             *)
MonitorTerminate ==
    /\ mon = "terminate"
    /\ hist' = [hist EXCEPT !.killed = TRUE]
    /\ IF g_target_hProcess # NULL /\ procHandle = "open" /\ viewer = "running"
       THEN /\ viewer' = "killed"
            /\ windows' = windows \ ViewerWindows(windows)
       ELSE UNCHANGED <<viewer, windows>>
    /\ mon' = "pump"
    /\ UNCHANGED <<builderVars, file, reg, temp, selfDelete, mainVars, sei_hProcess,
                   procHandle, hThread, globalVars, g_hhkLowLevelKybd, timerId, quit,
                   codecVars, faults, stale>>

(* while (PeekMessageW(...)) { if (WM_QUIT) { g_monitor_running = FALSE; break; } } *)
MonitorPump ==
    /\ mon = "pump"
    /\ g_monitor_running' = IF quit THEN FALSE ELSE g_monitor_running
    /\ quit' = FALSE
    /\ mon' = "sleep"
    /\ UNCHANGED <<builderVars, file, reg, temp, selfDelete, mainVars, sessionVars,
                   g_target_pid, g_target_hProcess, g_security_flags,
                   g_hhkLowLevelKybd, timerId, hist, codecVars, faults, stale>>

(* The clipboard is emptied; Sleep(5). *)
MonitorSleep ==
    /\ mon = "sleep"
    /\ mon' = "test"
    /\ UNCHANGED <<builderVars, file, reg, temp, selfDelete, mainVars, sessionVars,
                   globalVars, g_hhkLowLevelKybd, timerId, quit, hist, codecVars, faults, stale>>

(* What GetWindowThreadProcessId(GetForegroundWindow(), &pid) leaves in   *)
(* pid: the owner of the foreground window, or, with no foreground window *)
(* (the call fails on the NULL handle and writes nothing), whatever the   *)
(* uninitialised local held.                                              *)
ForegroundPid(fg) ==
    IF fg = "viewer" THEN {ViewerPid}
    ELSE IF fg = "other" THEN {OtherPid}
    ELSE {0, ViewerPid, OtherPid}

(* The value CallNextHookEx returns when no later hook swallows the event. *)
CallNextHookEx == 0

(* LowLevelKeyboardProc: 1 swallows the event. *)
LowLevelKeyboardProc(nCode, wParam, ctrl, vkCode, pid, target) ==
    IF /\ nCode = HC_ACTION
       /\ wParam \in {WM_KEYDOWN, WM_SYSKEYDOWN}
       /\ ctrl
       /\ vkCode \in {83, 80}
       /\ pid = target
    THEN 1
    ELSE CallNextHookEx

(* A keyboard event reaches the hook: the system calls it on the thread    *)
(* that installed it, while that thread is in PeekMessageW.                *)
KeyEvent ==
    /\ mon = "pump"
    /\ g_hhkLowLevelKybd
    /\ \E wParam \in {WM_KEYDOWN, WM_KEYUP}, ctrl \in BOOLEAN, vkCode \in {83, 80},
          fg \in {"viewer", "other", "none"} :
         /\ fg = "viewer" => viewer = "running"
         /\ \E pid \in ForegroundPid(fg) :
              hist' = [hist EXCEPT !.key =
                         [combo |-> wParam = WM_KEYDOWN /\ ctrl /\ vkCode \in {83, 80},
                          fg    |-> fg,
                          ret   |-> LowLevelKeyboardProc(HC_ACTION, wParam, ctrl, vkCode,
                                                         pid, g_target_pid)]]
    /\ UNCHANGED <<builderVars, file, reg, temp, selfDelete, mainVars, sessionVars,
                   globalVars, monitorVars, codecVars, faults, stale>>

(* KillTimer, UnhookWindowsHookEx, return 0 *)
MonitorCleanup ==
    /\ mon = "cleanup"
    /\ timerId' = FALSE
    /\ g_hhkLowLevelKybd' = FALSE
    /\ mon' = "ended"
    /\ UNCHANGED <<builderVars, file, reg, temp, selfDelete, mainVars, sessionVars,
                   globalVars, quit, hist, codecVars, faults, stale>>

(* ---------------------------------------------------------------- *)
(* The viewer, the desktop and the file system around the stub      *)
(* ---------------------------------------------------------------- *)

(* A title of 256 characters that ends in "Plot". *)
LongTitle == [i \in 1..252 |-> 65] \o <<80, 108, 111, 116>>

(* Titles of the windows that open during a session: "Drawing1", "Save As" *)
(* and the long title.                                                     *)
SessionTitles == {<<68, 114, 97, 119, 105, 110, 103, 49>>,
                  <<83, 97, 118, 101, 32, 65, 115>>,
                  LongTitle}

InSession == pc \in {"start_monitor", "wait_viewer", "stop_monitor", "wait_thread",
                     "close_process", "reset_globals"}

(* A window opens: one of the viewer's while it runs, or another process's *)
(* (followed only when its title carries a keyword).                       *)
WindowOpens ==
    /\ InSession
    /\ Cardinality(windows) < MaxWindows
    /\ \E p \in {ViewerPid, OtherPid}, t \in SessionTitles :
         /\ p = ViewerPid => viewer = "running"
         /\ p = OtherPid => t = ForbiddenKeywords[8]
         /\ [pid |-> p, title |-> t] \notin windows
         /\ windows' = windows \cup {[pid |-> p, title |-> t]}
    /\ UNCHANGED <<builderVars, file, reg, temp, selfDelete, mainVars, viewer,
                   sei_hProcess, procHandle, hThread, globalVars, monitorVars, hist,
                   codecVars, faults, stale>>

(* A window closes. *)
WindowCloses ==
    /\ InSession
    /\ \E w \in windows : windows' = windows \ {w}
    /\ UNCHANGED <<builderVars, file, reg, temp, selfDelete, mainVars, viewer,
                   sei_hProcess, procHandle, hThread, globalVars, monitorVars, hist,
                   codecVars, faults, stale>>

(* The user closes the viewer. *)
ViewerExits ==
    /\ viewer = "running"
    /\ pc # "exited"
    /\ viewer' = "exited"
    /\ windows' = windows \ ViewerWindows(windows)
    /\ UNCHANGED <<builderVars, file, reg, temp, selfDelete, mainVars, sei_hProcess,
                   procHandle, hThread, globalVars, monitorVars, hist, codecVars, faults, stale>>

(* The batch file of self_delete deletes the executable once it has ended. *)
BatchDeletes ==
    /\ selfDelete
    /\ pc = "exited"
    /\ file' = NoFile
    /\ selfDelete' = FALSE
    /\ UNCHANGED <<builderVars, reg, temp, mainVars, sessionVars, globalVars,
                   monitorVars, hist, codecVars, faults, stale>>

(* One byte of the magic field of a valid container is changed before its *)
(* first launch.                                                          *)
MagicFlipped ==
    /\ pc = "idle"
    /\ file # NoFile
    /\ read_footer(file).ok
    /\ \E i \in 1..MAGIC_MARKER_LEN, v \in {0, 32} :
         LET at  == Len(file) - MAGIC_MARKER_LEN + i
             new == BitXor(file[at], v, 8)
         IN  /\ v = 0 => file[at] # 0
             /\ file' = [file EXCEPT ![at] = IF v = 0 THEN 0 ELSE new]
    /\ UNCHANGED <<builderVars, reg, temp, selfDelete, mainVars, sessionVars,
                   globalVars, monitorVars, hist, codecVars, faults, stale>>

(* A valid container is cut short before its first launch. *)
FileTruncated ==
    /\ pc = "idle"
    /\ file # NoFile
    /\ read_footer(file).ok
    /\ \E n \in {0, FOOTER_SIZE - 1, FOOTER_SIZE, Len(file) - 1} :
         file' = SubSeq(file, 1, n)
    /\ UNCHANGED <<builderVars, reg, temp, selfDelete, mainVars, sessionVars,
                   globalVars, monitorVars, hist, codecVars, faults, stale>>

(* The payload_size field of a valid container is overwritten before its *)
(* first launch with a size larger than the bytes that precede the       *)
(* footer: one more than they are, or 2^32 more than the size it held.   *)
PayloadSizeChanged ==
    /\ pc = "idle"
    /\ file # NoFile
    /\ read_footer(file).ok
    /\ LET f    == read_footer(file).footer
           body == Len(file) - FOOTER_SIZE
       IN  /\ f.payload_size.hi = 0
           /\ f.payload_size.lo <= body
           /\ \E ps \in {U64(0, body + 1), U64(1, f.payload_size.lo)} :
                file' = SubSeq(file, 1, body)
                          \o FooterBytes([f EXCEPT !.payload_size = ps])
    /\ UNCHANGED <<builderVars, reg, temp, selfDelete, mainVars, sessionVars,
                   globalVars, monitorVars, hist, codecVars, faults, stale>>

(* ---------------------------------------------------------------- *)
(* The codec on its own                                             *)
(* ---------------------------------------------------------------- *)

CodecInputs == {Pattern(n, s[1], s[2]) : n \in 0..MaxCodecLen, s \in PatternSeeds}

(* xor_crypt(buf, len) *)
CodecApply ==
    /\ applied < 2
    /\ buf' = xor_crypt(buf)
    /\ applied' = applied + 1
    /\ UNCHANGED <<builderVars, file, reg, temp, selfDelete, mainVars, sessionVars,
                   globalVars, monitorVars, hist, orig, erase, seek, faults, stale>>

(* ---------------------------------------------------------------- *)
(* secure_delete_file on its own                                    *)
(* ---------------------------------------------------------------- *)

(* sizeof zeros *)
ZEROS_LEN == 4096

(* Most buffers of zeros a file of the erase runs holds. *)
MaxChunks == 3

(* File lengths around the multiples of the buffer length. *)
EraseLengths ==
    {n \in {k * ZEROS_LEN + d : k \in 0..MaxChunks, d \in {-1, 0, 1, 2}} : n >= 0}

(* No call of secure_delete_file on its own. *)
NoErase == [phase |-> "none", len |-> 0, openOk |-> FALSE, held |-> FALSE,
            size |-> 0, pos |-> 0, zeroed |-> 0, flushed |-> FALSE, deleted |-> FALSE]

(* A loop that stops at the last, partial buffer: while (size >= 4096). *)
overwrite_whole_buffers(e) ==
    LET to_write == IF e.size >= ZEROS_LEN THEN ZEROS_LEN ELSE 0
    IN  [e EXCEPT !.zeroed = IF e.pos = @ THEN @ + to_write ELSE @,
                  !.pos    = @ + to_write,
                  !.size   = IF e.size >= ZEROS_LEN THEN @ - ZEROS_LEN ELSE 0]

(* One turn of the loop: to_write = size > 4096 ? 4096 : size; fwrite;    *)
(* size -= to_write.  pos is the file position, zeroed the number of      *)
(* bytes from offset 0 on that hold zero.                                 *)
overwrite(e) ==
    LET to_write == IF e.size > ZEROS_LEN THEN ZEROS_LEN ELSE e.size
    IN  [e EXCEPT !.zeroed = IF e.pos = @ THEN @ + to_write ELSE @,
                  !.pos    = @ + to_write,
                  !.size   = @ - to_write]

(* _wfopen(path, L"r+b"); on failure return DeleteFileW(path); else fseek, *)
(* ftell, fseek(f, 0, SEEK_SET).                                           *)
EraseOpen ==
    /\ erase.phase = "open"
    /\ erase' = IF erase.openOk
                THEN [erase EXCEPT !.phase = "loop", !.size = erase.len, !.pos = 0]
                ELSE [erase EXCEPT !.phase = "done", !.deleted = ~erase.held]
    /\ UNCHANGED <<builderVars, file, reg, temp, selfDelete, mainVars, sessionVars,
                   globalVars, monitorVars, hist, buf, orig, applied, seek, faults, stale>>

(* while (size > 0) { ... } *)
EraseLoop ==
    /\ erase.phase = "loop"
    /\ erase.size > 0
    /\ erase' = overwrite(erase)
    /\ UNCHANGED <<builderVars, file, reg, temp, selfDelete, mainVars, sessionVars,
                   globalVars, monitorVars, hist, buf, orig, applied, seek, faults, stale>>

(* fflush(f); fclose(f); *)
EraseFlush ==
    /\ erase.phase = "loop"
    /\ ~(erase.size > 0)
    /\ erase' = [erase EXCEPT !.phase = "delete", !.flushed = TRUE]
    /\ UNCHANGED <<builderVars, file, reg, temp, selfDelete, mainVars, sessionVars,
                   globalVars, monitorVars, hist, buf, orig, applied, seek, faults, stale>>

(* return DeleteFileW(path); *)
EraseDelete ==
    /\ erase.phase = "delete"
    /\ erase' = [erase EXCEPT !.phase = "done", !.deleted = ~erase.held]
    /\ UNCHANGED <<builderVars, file, reg, temp, selfDelete, mainVars, sessionVars,
                   globalVars, monitorVars, hist, buf, orig, applied, seek, faults, stale>>

(* ---------------------------------------------------------------- *)
(* The seek offset of extract_payload on its own                    *)
(* ---------------------------------------------------------------- *)

(* How many sizes are taken at each end of the range. *)
MaxOffsetSample == 60

(* Payload sizes the builders can write: the file size they read is a long *)
(* above 0.  The smallest and the largest of them.                         *)
BuilderSizes ==
    {n \in 1..MaxOffsetSample : TRUE}
        \cup {INT_MAX - d : d \in 0..MaxOffsetSample}

(* No offset computed yet. *)
NoSeek == [size |-> 0, offset |-> 0, done |-> FALSE]

(* payload_offset = -(long)(footer->payload_size + FOOTER_SIZE); *)
OffsetApply ==
    /\ ~seek.done
    /\ seek.size > 0
    /\ seek' = [seek EXCEPT !.offset = NegLong(LongOfSizePlusFooter(U64(0, seek.size))),
                            !.done = TRUE]
    /\ UNCHANGED <<builderVars, file, reg, temp, selfDelete, mainVars, sessionVars,
                   globalVars, monitorVars, hist, buf, orig, applied, erase, faults, stale>>

(* ---------------------------------------------------------------- *)
(* Specifications                                                   *)
(* ---------------------------------------------------------------- *)

SessionDwgFiles == {Pattern(2, 1, 65)}

SessionStubFiles == {<<77, 90>>}

(* Texts of the limit field: "0" .. the digit MaxLimit, and "-1", which the *)
(* field takes by paste (ES_NUMBER filters typed characters only).          *)
SessionLimitTexts == {<<48 + d>> : d \in 0..MaxLimit} \cup {<<45, 49>>}

SessionCheckStates == {[meltdown |-> FALSE, popup |-> TRUE, destruct |-> TRUE],
                       [meltdown |-> TRUE, popup |-> FALSE, destruct |-> FALSE]}

(* Stack contents the CLI builder's footer can start from. *)
SessionStacks ==
    {[max_launches |-> INT_MIN, file_id |-> FileIdOf(1), security_flags |-> -1]}

SessionRegStates == {EmptyReg, [n \in {get_id_string(FileIdOf(1))} |-> 1]}

NoCodec ==
    buf = <<>> /\ orig = <<>> /\ applied = 0 /\ erase = NoErase /\ seek = NoSeek

(* The stub at work on a container some builder wrote. *)
Init ==
    /\ InitEnv(SessionStubFiles, SessionDwgFiles, SessionLimitTexts,
               SessionCheckStates, SessionStacks, SessionRegStates)
    /\ NoCodec

Next ==
    \/ GuiBuild
    \/ CliBuild
    \/ StubStart
    \/ StubCheckLimit
    \/ StubIncrement
    \/ StubShowInfo
    \/ StubExtract
    \/ Spawn
    \/ StartMonitor
    \/ WaitViewer
    \/ StopMonitor
    \/ WaitThread
    \/ CloseProcess
    \/ ResetGlobals
    \/ Wipe
    \/ StubReturn
    \/ MonitorInit
    \/ MonitorTest
    \/ MonitorScan
    \/ MonitorTerminate
    \/ MonitorPump
    \/ MonitorSleep
    \/ MonitorCleanup
    \/ WindowOpens
    \/ WindowCloses
    \/ ViewerExits
    \/ BatchDeletes
    \/ MagicFlipped
    \/ FileTruncated

Spec == Init /\ [][Next]_vars

(* Texts of the limit field: empty, "0", "1", "25". *)
BuildLimitTexts == {<<>>, <<48>>, <<49>>, <<50, 53>>}

BuildStacks == {[max_launches |-> 7, file_id |-> FileIdOf(254), security_flags |-> INT_MIN]}

(* The builders at work, and the stub reading what they wrote. *)
InitBuild ==
    /\ InitEnv(StubFiles, DwgFiles, BuildLimitTexts, CheckStates, BuildStacks, {EmptyReg})
    /\ NoCodec

NextBuild ==
    \/ GuiBuild
    \/ CliBuild
    \/ StubStart
    \/ StubCheckLimit
    \/ StubIncrement
    \/ StubShowInfo
    \/ StubExtract

SpecBuild == InitBuild /\ [][NextBuild]_vars

(* The codec applied to buffers of every length up to MaxCodecLen. *)
InitCodec ==
    /\ InitEnv({NoFile}, {<<>>}, {<<>>}, {[meltdown |-> FALSE, popup |-> FALSE,
                                           destruct |-> FALSE]},
               BuildStacks, {EmptyReg})
    /\ buf \in CodecInputs
    /\ orig = buf
    /\ applied = 0
    /\ erase = NoErase
    /\ seek = NoSeek

NextCodec == CodecApply

SpecCodec == InitCodec /\ [][NextCodec]_vars

(* One unlimited container, its sessions and the keyboard. *)
InitSession ==
    /\ InitEnv(SessionStubFiles, SessionDwgFiles, {<<48>>},
               {[meltdown |-> TRUE, popup |-> FALSE, destruct |-> FALSE]},
               SessionStacks, {EmptyReg})
    /\ NoCodec

NextSession ==
    \/ GuiBuild
    \/ StubStart
    \/ StubCheckLimit
    \/ StubIncrement
    \/ StubShowInfo
    \/ StubExtract
    \/ Spawn
    \/ StartMonitor
    \/ WaitViewer
    \/ StopMonitor
    \/ WaitThread
    \/ CloseProcess
    \/ ResetGlobals
    \/ Wipe
    \/ StubReturn
    \/ MonitorInit
    \/ MonitorTest
    \/ MonitorScan
    \/ MonitorTerminate
    \/ MonitorPump
    \/ MonitorSleep
    \/ MonitorCleanup
    \/ KeyEvent
    \/ WindowOpens
    \/ WindowCloses
    \/ ViewerExits

SpecSession == InitSession /\ [][NextSession]_vars

(* A container that was changed after the build (its size field, its    *)
(* magic, its length), and the stub up to the spawn.                    *)
NextForged ==
    \/ GuiBuild
    \/ CliBuild
    \/ PayloadSizeChanged
    \/ MagicFlipped
    \/ FileTruncated
    \/ StubStart
    \/ StubCheckLimit
    \/ StubIncrement
    \/ StubShowInfo
    \/ StubExtract

SpecForged == InitSession /\ [][NextForged]_vars

(* secure_delete_file called on files of the lengths of EraseLengths, *)
(* that open or not, that another process holds or not.               *)
InitErase ==
    /\ InitEnv({NoFile}, {<<>>}, {<<>>}, {[meltdown |-> FALSE, popup |-> FALSE,
                                           destruct |-> FALSE]},
               BuildStacks, {EmptyReg})
    /\ buf = <<>> /\ orig = <<>> /\ applied = 0 /\ seek = NoSeek
    /\ \E n \in EraseLengths, o \in BOOLEAN, h \in BOOLEAN :
         erase = [NoErase EXCEPT !.phase = "open", !.len = n, !.openOk = o, !.held = h]

NextErase ==
    \/ EraseOpen
    \/ EraseLoop
    \/ EraseFlush
    \/ EraseDelete

SpecErase == InitErase /\ [][NextErase]_vars

(* The call runs on: each of its statements returns. *)
FairErase == SpecErase /\ WF_vars(NextErase)

(* The offset computed for the payload sizes of BuilderSizes. *)
InitOffset ==
    /\ InitEnv({NoFile}, {<<>>}, {<<>>}, {[meltdown |-> FALSE, popup |-> FALSE,
                                           destruct |-> FALSE]},
               BuildStacks, {EmptyReg})
    /\ buf = <<>> /\ orig = <<>> /\ applied = 0 /\ erase = NoErase
    /\ \E n \in BuilderSizes : seek = [NoSeek EXCEPT !.size = n]

NextOffset == OffsetApply

SpecOffset == InitOffset /\ [][NextOffset]_vars

(* The steps of security_monitor_thread. *)
MonitorStep ==
    \/ MonitorInit
    \/ MonitorTest
    \/ MonitorScan
    \/ MonitorTerminate
    \/ MonitorPump
    \/ MonitorSleep
    \/ MonitorCleanup

(* The first launch of the container. *)
FirstStart == StubStart /\ launches = 0

(* One launch of the container: a process of its own, with its session. *)
NextFirstSession ==
    \/ GuiBuild
    \/ FirstStart
    \/ StubCheckLimit
    \/ StubIncrement
    \/ StubShowInfo
    \/ StubExtract
    \/ Spawn
    \/ StartMonitor
    \/ WaitViewer
    \/ StopMonitor
    \/ WaitThread
    \/ CloseProcess
    \/ ResetGlobals
    \/ Wipe
    \/ StubReturn
    \/ MonitorInit
    \/ MonitorTest
    \/ MonitorScan
    \/ MonitorTerminate
    \/ MonitorPump
    \/ MonitorSleep
    \/ MonitorCleanup
    \/ KeyEvent
    \/ WindowOpens
    \/ WindowCloses
    \/ ViewerExits

(* The session under fair scheduling: a monitor thread that can take a    *)
(* step takes one (no call in its loop blocks, Sleep(5) returns), and the *)
(* stub returns from its wait for the viewer and signals the shutdown.    *)
(* Nothing is assumed of the stub once it is in its 500 ms wait.          *)
FairSession ==
    /\ InitSession
    /\ [][NextFirstSession]_vars
    /\ WF_vars(MonitorStep)
    /\ WF_vars(WaitViewer)
    /\ WF_vars(StopMonitor)

(* ---------------------------------------------------------------- *)
(* Properties                                                       *)
(* ---------------------------------------------------------------- *)

(* a < b for two 32-bit unsigned values held as their signed images. *)
ULess(a, b) == IF (a >= 0) = (b >= 0) THEN a < b ELSE b < 0

Last(q) == q[Len(q)]

(* The container on disk is what a build without failures wrote, its *)
(* identifier had no ledger entry, and no registry call has failed.  *)
CleanRun ==
    /\ build.by # "none"
    /\ build.result
    /\ ~build.short
    /\ build.fresh
    /\ ~hist.regFault
    /\ footer # NoFooter

LimitRejected == pc = "exited" /\ Len(msgs) > 0 /\ Last(msgs) = "limit"

(* C1: with max_launches = N >= 1 (an unsigned 32-bit value) the first N   *)
(* launches of a container pass the limit check and every later one is     *)
(* rejected before the viewer is spawned; with N = 0 none is rejected.     *)
(* hist.opens counts the launches that passed, this one included.          *)
C1_LaunchLimitEnforced ==
    CleanRun =>
      /\ hist.passed =>
            (footer.max_launches = 0 \/ ~ULess(footer.max_launches, hist.opens))
      /\ LimitRejected =>
            (footer.max_launches # 0 /\ ~ULess(hist.opens, footer.max_launches))
      /\ hist.spawned => hist.passed

(* Positions of wWinMain after the call of increment_launch_count. *)
AfterIncrement ==
    pc \in {"info", "extract", "launch", "start_monitor", "wait_viewer", "stop_monitor",
            "wait_thread", "close_process", "reset_globals", "wipe", "return"}
    \/ (pc = "exited" /\ hist.incCalled)

(* C2: a launch that has spawned the viewer has called the increment     *)
(* before; and once the increment has been called without a registry     *)
(* failure, the ledger holds one more than the launch read, whether or   *)
(* not extraction and spawn go on to succeed.                            *)
C2_IncrementBeforeSpawn ==
    /\ hist.spawned => hist.incCalled
    /\ viewer # "none" => hist.incCalled
    /\ hist.tempMade => hist.incCalled
    /\ (AfterIncrement /\ ~hist.regFault) =>
          /\ hist.incCalled
          /\ get_id_string(footer.file_id) \in DOMAIN reg
          /\ reg[get_id_string(footer.file_id)] = launch_count + 1

(* C2 witness: the spawn failed and the count is consumed. *)
C2_Witness ==
    /\ pc = "exited"
    /\ Len(msgs) > 0 /\ Last(msgs) = "spawn"
    /\ ~hist.regFault
    /\ launch_count = 1
    /\ reg[get_id_string(footer.file_id)] = 2

(* C3: when the stub has returned from a launch that created the temp *)
(* file, the temp file is absent.                                     *)
C3_TempAbsentAfterTeardown ==
    (pc = "exited" /\ hist.tempMade) => temp = NoFile

(* C4: the container a build without failures wrote reads back with      *)
(* payload_size = len(P) and a decrypted payload equal to P, and, from   *)
(* the GUI builder, with max_launches = L and security_flags = F; the    *)
(* stub's own read_footer and extract_payload give the same.             *)
C4_ContainerIntegrity ==
    (build.by # "none" /\ build.result /\ ~build.short) =>
      LET r == read_footer(file)
      IN  /\ r.ok
          /\ r.footer.payload_size = U64(0, Len(dwgFile))
          /\ \A wide \in BOOLEAN :
                extract_payload(file, r.footer, "none", wide).temp = dwgFile
          /\ build.by = "gui" =>
                /\ r.footer.max_launches = GuiLimit(limitText)
                /\ r.footer.security_flags = GuiFlags(checks)
          /\ pc \in {"check", "increment", "info", "extract", "launch"} => footer = r.footer
          /\ pc = "launch" => temp = dwgFile

(* C4 witness: the stub has extracted the longest payload from a GUI *)
(* build with limit 25 and all three flags.                          *)
C4_Witness ==
    /\ build.by = "gui"
    /\ pc = "launch"
    /\ Len(dwgFile) = MaxPayloadLen
    /\ temp = dwgFile
    /\ footer.max_launches = 25
    /\ footer.security_flags = 7

(* Some byte of the magic field differs from the sentinel, or the file is *)
(* shorter than the footer.                                               *)
BadContainer(f) ==
    \/ Len(f) < FOOTER_SIZE
    \/ \E i \in 1..MAGIC_MARKER_LEN : f[Len(f) - MAGIC_MARKER_LEN + i] # MAGIC_MARKER[i]

(* C5: a launch of a file whose magic field differs from the sentinel in *)
(* any byte, or that is shorter than 40 bytes, does not get past the     *)
(* footer check: it ends with the invalid-container message and status   *)
(* 1, and no viewer is spawned.                                          *)
C5_CorruptionRejected ==
    file # NoFile =>
      /\ pc \notin {"idle", "exited"} => ~BadContainer(file)
      /\ (/\ pc = "exited"
          /\ launches > 0
          /\ BadContainer(file)
          /\ msgs \notin {<<"no_path">>, <<"no_open">>})
         => /\ msgs = <<"invalid">>
            /\ exitCode = 1
            /\ ~hist.spawned
            /\ viewer = "none"
            /\ temp = NoFile

(* C5 witness: a launch has rejected a container whose last magic byte *)
(* was changed.                                                        *)
C5_Witness ==
    /\ pc = "exited"
    /\ msgs = <<"invalid">>
    /\ Len(file) >= FOOTER_SIZE
    /\ file[Len(file)] # 0
    /\ \A i \in 1..(MAGIC_MARKER_LEN - 1) :
          file[Len(file) - MAGIC_MARKER_LEN + i] = MAGIC_MARKER[i]

(* C6: while no registry call fails, a read of a value that is not there *)
(* gives 0, every increment returns and stores one more than the launch  *)
(* read, more than any increment before it returned, and no stored count *)
(* decreases.                                                            *)
C6_LedgerMonotone ==
    [][/\ faults' = faults =>
            \A n \in DOMAIN reg : n \in DOMAIN reg' /\ reg'[n] >= reg[n]
       /\ (/\ pc = "check"
           /\ faults' = faults
           /\ get_id_string(footer.file_id) \notin DOMAIN reg) => launch_count' = 0
       /\ (pc = "increment" /\ ~hist'.regFault) =>
            /\ hist'.incRet = launch_count + 1
            /\ hist'.incRet > hist.lastRet
            /\ reg'[get_id_string(footer.file_id)] = hist'.incRet]_vars

(* C6 witness: the third increment of one identifier has returned 3. *)
C6_Witness ==
    /\ ~hist.regFault
    /\ hist.incCalled
    /\ hist.incRet = 3
    /\ reg[get_id_string(footer.file_id)] = 3

(* C7: xor_crypt applied twice gives the buffer back, for every length, *)
(* and no application changes the length.                               *)
C7_CodecRoundTrip ==
    /\ Len(buf) = Len(orig)
    /\ applied = 2 => buf = orig

(* C7 witness: a buffer one byte longer than two keys, back after two *)
(* applications.                                                      *)
C7_Witness ==
    /\ applied = 2
    /\ Len(orig) = 2 * XOR_KEY_LEN + 1
    /\ buf = orig

C9_EmptyPayload ==
    (/\ build.by # "none"
     /\ dwgFile = <<>>
     /\ stubFile # NoFile
     /\ stubFile # <<>>
     /\ faults = 0)
    => /\ build.result
       /\ file # NoFile
       /\ pc = "launch" => temp = <<>>

(* A message of a failed launch has been shown. *)
FailureShown == \E i \in 1..Len(msgs) : msgs[i] # "remaining"

(* C10: the stub exits with status zero only on full success: a launch   *)
(* that showed a failure (invalid container, limit reached, extraction   *)
(* failure, spawn failure) ends with a non-zero status.                  *)
C10_ExitStatus ==
    (pc = "exited" /\ launches > 0) => (FailureShown <=> exitCode # 0)

C12_ShortWriteFails ==
    (build.by # "none" /\ build.short) => ~build.result

(* C13: when a launch has been rejected by the launch limit, deletion of  *)
(* the container is scheduled only if the SELF_DESTRUCT flag is set in    *)
(* the footer.  Taken on runs without failures, with a limit below 2^31.  *)
C13_SelfDestructPolicy ==
    (CleanRun /\ footer.max_launches > 0 /\ LimitRejected /\ selfDelete) =>
        BitAnd(footer.security_flags, FLAG_SELF_DESTRUCT, 32) # 0


(***************************************************************************)
(* C14: the monitor thread is started for a viewer session only when the   *)
(* MELTDOWN flag is set in the footer's security_flags; with the flag      *)
(* clear the session has no monitor thread.                                *)
(***************************************************************************)
C14_MonitorOnlyWithMeltdown ==
    (CleanRun /\ pc = "wait_viewer" /\ hThread # NULL) =>
        BitAnd(footer.security_flags, FLAG_MELTDOWN, 32) # 0

(***************************************************************************)
(* C15: the remaining-views message is shown on a launch only when the     *)
(* SHOW_COUNTDOWN flag is set in the footer's security_flags.              *)
(***************************************************************************)
C15_CountdownOnlyWithFlag ==
    (CleanRun /\ pc = "extract" /\ Len(msgs) > 0 /\ Last(msgs) = "remaining") =>
        BitAnd(footer.security_flags, FLAG_SHOW_COUNTDOWN, 32) # 0


(***************************************************************************)
(* C16: a launch never writes to the container file.  Every step a launch  *)
(* takes leaves the file's bytes as they were, the file changes only by a  *)
(* build, by a change made before the first launch, or by the batch file   *)
(* of a launch the limit rejected, and that batch file is left by a limit  *)
(* rejection only.                                                         *)
(***************************************************************************)
C16_ContainerUnwritten ==
    [][/\ (pc \notin {"idle", "exited"} \/ launches' # launches) => file' = file
       /\ file' # file =>
             \/ build' # build
             \/ pc = "idle" /\ pc' = "idle"
             \/ pc = "exited" /\ selfDelete /\ file' = NoFile
       /\ (selfDelete' /\ ~selfDelete) => LimitRejected']_vars

(* Two launches of one container have run to the end of their sessions and *)
(* the file holds what the build wrote.                                    *)
C16_Witness ==
    /\ CleanRun
    /\ launches = 2
    /\ pc = "exited"
    /\ exitCode = 0
    /\ hist.spawned
    /\ build.by = "gui"
    /\ file = gui_build_protected_exe(stubFile, dwgFile, build.max_launches,
                                      build.flags, build.file_id, "none").out


(* The whole title carries a keyword. *)
TitleContainsKeyword(title) ==
    \E k \in 1..Len(ForbiddenKeywords) : wcsstr(title, ForbiddenKeywords[k])

(* One scan of the monitor acts by policy on the windows Match selects:    *)
(* WM_CLOSE is posted to each selected window of the target process and to *)
(* no other window, and the scan goes on to TerminateProcess exactly       *)
(* when some window is selected and the meltdown bit is set.               *)
ScanActsOn(Match(_)) ==
    (mon = "scan" /\ mon' # "scan" /\ g_target_pid # 0) =>
        LET matched == {w \in windows : w.pid = g_target_pid /\ Match(w.title)}
            melt    == BitAnd(g_security_flags, FLAG_MELTDOWN, 32) # 0
        IN  /\ hist'.posted = matched
            /\ (mon' = "terminate") <=> (matched # {} /\ melt)

(* The policy on the windows whose title as read into the 256-character *)
(* buffer carries a keyword.                                             *)
MatchActionOnReadTitles == [][ScanActsOn(TitleForbidden)]_vars

(***************************************************************************)
(* C17: a scan posts a close request to each window of the target process  *)
(* whose title contains a forbidden keyword, whatever the flags, and to no *)
(* window of another process; it terminates the target process if and only *)
(* if such a window exists and the MELTDOWN flag is set.                   *)
(***************************************************************************)
C17_MatchActionByPolicy == [][ScanActsOn(TitleContainsKeyword)]_vars


(* With a window in the foreground the hook swallows Ctrl+S and Ctrl+P of *)
(* the viewer only.                                                       *)
KeyBlockingWithForeground ==
    (hist.key.ret = 1 /\ hist.key.fg # "none") =>
        (hist.key.combo /\ hist.key.fg = "viewer")

(***************************************************************************)
(* C18: while the keyboard hook is installed, an event is swallowed only   *)
(* when it is a Ctrl+S or Ctrl+P key-down and the foreground window        *)
(* belongs to the viewer of the session; with another process in front,    *)
(* with no foreground window, or after the target id was reset, the event  *)
(* is passed on.                                                           *)
(***************************************************************************)
C18_SelectiveKeyBlocking ==
    hist.key.ret = 1 => (hist.key.combo /\ hist.key.fg = "viewer")


(* The wait of launch_and_wait holds the stub while the viewer whose handle *)
(* it has is running.                                                       *)
WaitBeforeWipeWithHandle ==
    [][(pc = "wipe" /\ pc' = "return" /\ hist.spawned /\ sei_hProcess # NULL) =>
          viewer # "running"]_vars

(***************************************************************************)
(* C19: after a successful spawn the stub does not wipe or delete the temp *)
(* file while the viewer spawned for it is still running.                  *)
(***************************************************************************)
C19_WaitBeforeWipe ==
    [][(pc = "wipe" /\ pc' = "return" /\ hist.spawned) => viewer # "running"]_vars


(* The monitor thread is in its set-up or in its loop. *)
Watching == mon \in {"init", "test", "scan", "terminate", "pump", "sleep"}

(* The monitor thread has ended, by its return or with the process. *)
Stopped == mon \in {"ended", "killed"}

(***************************************************************************)
(* C20: once the viewer has exited while the monitor is watching, the      *)
(* monitor eventually stops: the stub signals the shutdown and the loop    *)
(* ends at its next test, whether or not the stub goes on meanwhile.       *)
(***************************************************************************)
C20_MonitorCancellation ==
    (Watching /\ viewer # "running") ~> Stopped

(* The monitor returned by itself after the viewer's exit, while the stub *)
(* was still in its wait for the thread.                                  *)
C20_Witness ==
    /\ mon = "ended"
    /\ pc = "wait_thread"
    /\ viewer = "exited"
    /\ ~g_monitor_running


(* The monitor thread that returns has released its hook and its timer. *)
ReleaseOnReturn ==
    [][mon' = "ended" => (~g_hhkLowLevelKybd' /\ ~timerId')]_vars

(***************************************************************************)
(* C21: on every path by which the monitor thread ends while it holds the  *)
(* keyboard hook or the timer, the thread ends by its own clean-up, which  *)
(* releases both.                                                          *)
(***************************************************************************)
C21_MonitorReleasesResources ==
    [][(~Stopped /\ Stopped' /\ (g_hhkLowLevelKybd \/ timerId)) =>
          /\ mon = "cleanup"
          /\ mon' = "ended"
          /\ ~g_hhkLowLevelKybd'
          /\ ~timerId']_vars


(* The monitor thread exists and has not ended. *)
MonitorAlive ==
    mon \in {"init", "test", "scan", "terminate", "pump", "sleep", "cleanup"}

(* The target id and handle are written before the monitor thread starts. *)
TargetWrittenBeforeStart ==
    [][(mon = "none" /\ mon' = "init") =>
          (g_target_pid' = ViewerPid /\ g_target_hProcess' = sei_hProcess)]_vars

(***************************************************************************)
(* C22: the target process id and handle are not changed while the monitor *)
(* thread is running; the stub changes them only before the thread starts  *)
(* and after it has ended.                                                 *)
(***************************************************************************)
C22_TargetSlotDiscipline ==
    [][(g_target_pid' # g_target_pid \/ g_target_hProcess' # g_target_hProcess) =>
          ~MonitorAlive]_vars


(* The footer read at the start of the launch carries a payload_size   *)
(* larger than the number of bytes that precede the footer in the file. *)
SizeExceedsBody ==
    /\ footer # NoFooter
    /\ file # NoFile
    /\ \/ footer.payload_size.hi # 0
       \/ footer.payload_size.lo < 0
       \/ footer.payload_size.lo > Len(file) - FOOTER_SIZE

(* The launch went past extract_payload, or ended. *)
PastExtract == pc \notin {"idle", "check", "increment", "info", "extract"}

(* The launch ended as a failure of the extraction, with nothing left. *)
ExtractionRejected ==
    /\ pc = "exited"
    /\ exitCode = 1
    /\ Len(msgs) > 0
    /\ temp = NoFile
    /\ ~hist.tempMade
    /\ ~hist.spawned

(* A payload_size below 2^32 that exceeds the bytes before the footer is *)
(* rejected.                                                             *)
OversizeBelowWordRejected ==
    (SizeExceedsBody /\ footer.payload_size.hi = 0 /\ PastExtract) => ExtractionRejected

(***************************************************************************)
(* C23: a launch of a file whose footer has a valid magic and whose        *)
(* payload_size exceeds the number of bytes that precede the footer ends   *)
(* as a failure of the extraction: no temp file is left and the viewer is  *)
(* not spawned.                                                            *)
(***************************************************************************)
C23_OversizePayloadRejected ==
    (SizeExceedsBody /\ PastExtract) => ExtractionRejected


(***************************************************************************)
(* C24: secure_delete_file, when the file opens, has written zero over     *)
(* every byte from offset 0 to the length and flushed before it deletes    *)
(* the file; when the file does not open it still calls the delete; each   *)
(* turn of the loop leaves fewer bytes to write, and the call ends for     *)
(* every length.                                                           *)
(***************************************************************************)
C24_SecureErase ==
    /\ [][/\ (erase'.phase = "done" /\ erase.phase # "done") =>
               /\ erase'.deleted = ~erase.held
               /\ erase.openOk =>
                     (erase.flushed /\ erase.zeroed = erase.len /\ erase.pos = erase.len)
          /\ (erase.phase = "loop" /\ erase'.phase = "loop") =>
               (erase'.size < erase.size /\ erase'.size >= 0)]_vars
    /\ <>(erase.phase = "done")

(* A file of two buffers and one byte was overwritten, flushed and deleted. *)
C24_Witness ==
    /\ erase.phase = "done"
    /\ erase.openOk
    /\ erase.len = 2 * ZEROS_LEN + 1
    /\ erase.zeroed = erase.len
    /\ erase.flushed
    /\ erase.deleted


(* What the stack can hold where the CLI builder's footer lies. *)
StackContents == SessionStacks \cup BuildStacks

(***************************************************************************)
(* C25: every footer field is assigned by the builder before the footer is *)
(* written, so the container a build writes is determined by the builder's *)
(* inputs: whatever the memory of the footer held before, the CLI builder  *)
(* writes the same file.                                                   *)
(***************************************************************************)
C25_FooterComplete ==
    (build.by = "cli" /\ build.result /\ ~build.short) =>
        \A junk \in StackContents :
            cli_build_protected_exe(stubFile, dwgFile, junk, "none").out = file


(***************************************************************************)
(* C26: the launch the limit rejects ends at the limit test: it leaves the *)
(* ledger as it was, has not called the increment, has created no temp     *)
(* file and has spawned no viewer and no monitor thread.                   *)
(***************************************************************************)
C26_RejectedOpenNoEffects ==
    [][(pc = "check" /\ LimitRejected') =>
          /\ reg' = reg
          /\ ~hist'.incCalled
          /\ temp' = NoFile
          /\ ~hist'.tempMade
          /\ ~hist'.spawned
          /\ viewer' = "none"
          /\ hThread' = NULL
          /\ mon' = "none"]_vars

(* The second launch of a container of limit 1 was rejected with the count *)
(* at 1.                                                                   *)
C26_Witness ==
    /\ CleanRun
    /\ LimitRejected
    /\ launches = 2
    /\ footer.max_launches = 1
    /\ reg[get_id_string(footer.file_id)] = 1
    /\ temp = NoFile


(* The file has no valid footer: it is shorter than a footer or its magic *)
(* is not the marker.                                                     *)
BadFooterFile == file # NoFile /\ ~read_footer(file).ok

(* The file has a valid footer whose payload_size, below 2^32, exceeds the *)
(* bytes before the footer: every launch of it fails in extract_payload.   *)
OversizeFile ==
    /\ file # NoFile
    /\ read_footer(file).ok
    /\ LET ps == read_footer(file).footer.payload_size
       IN  ps.hi = 0 /\ (ps.lo < 0 \/ ps.lo > Len(file) - FOOTER_SIZE)

(* A step of a launch: its start, or a step of the stub that runs. *)
LaunchStep == launches' # launches \/ pc \notin {"idle", "exited"}

(* A launch of a file without a valid footer leaves the ledger as it was. *)
BadFooterConsumesNoLaunch ==
    [][(BadFooterFile /\ LaunchStep) => reg' = reg]_vars

(***************************************************************************)
(* C27: a launch that fails because the container is invalid (bad magic,   *)
(* truncated footer, payload_size inconsistent with the file length)       *)
(* leaves the ledger count of every build_id as it was.                    *)
(***************************************************************************)
C27_InvalidConsumesNoLaunch ==
    [][((BadFooterFile \/ OversizeFile) /\ LaunchStep) => reg' = reg]_vars


(* The callback decides to terminate only while the handle is open. *)
TerminateDecidedOnOpenHandle ==
    [][(mon = "scan" /\ mon' = "terminate") => procHandle = "open"]_vars

(***************************************************************************)
(* C28: in every interleaving of the stub's teardown with the monitor      *)
(* thread, the monitor does not call TerminateProcess on the viewer's      *)
(* process handle after the stub has closed it.                            *)
(***************************************************************************)
C28_NoUseOfClosedHandle ==
    [][(mon = "terminate" /\ mon' = "pump") =>
          ~(procHandle = "closed" /\ g_target_hProcess # NULL)]_vars


(* For payload sizes up to LONG_MAX - FOOTER_SIZE the offset is the exact *)
(* negative of payload_size + FOOTER_SIZE.                                *)
OffsetExactBelowWrap ==
    (seek.done /\ seek.size <= INT_MAX - FOOTER_SIZE) =>
        (seek.offset < 0 /\ seek.offset + seek.size = 0 - FOOTER_SIZE)

(***************************************************************************)
(* C29: for every payload_size the builder can write, up to the largest    *)
(* file size a signed 32-bit long holds, the seek offset is negative and   *)
(* equals -(payload_size + 40): the payload is read from                   *)
(* file_length - 40 - payload_size on.                                     *)
(***************************************************************************)
C29_OffsetArithmetic ==
    seek.done => (seek.offset < 0 /\ seek.offset + seek.size = 0 - FOOTER_SIZE)

==============================================================================
